---- MODULE Spec2Model ----
(***************************************************************************)
(* jedeschule_lite: the orchestrator (runner.py), the registry, the        *)
(* transport layer (utils.py) and the network behaviour of the sixteen     *)
(* per-region extractors (scrapers/*.py).                                   *)
(*                                                                         *)
(* Strings are sequences of one-character strings so that lower() and      *)
(* strip() are computed, not assumed.                                      *)
(***************************************************************************)
EXTENDS Integers, Sequences, FiniteSets, TLC

(***************************************************************************)
(* Bounds of the model.                                                    *)
(***************************************************************************)
MaxTargets == 2      \* longest list of requested keys passed to scrape_all
MaxRows == 2         \* most rows a healthy upstream payload carries
MaxDeviations == 1   \* in a run over more than MaxTargets keys: most invocations whose upstream is not the default one

(***************************************************************************)
(* Characters and the str methods used by runner.py.                       *)
(***************************************************************************)
\* The characters of the model, in code point order.
Chars ==
  <<"\t","\n"," ","-",
    "A","B","C","D","E","F","G","H","I","J","K","L","M",
    "N","O","P","Q","R","S","T","U","V","W","X","Y","Z",
    "a","b","c","d","e","f","g","h","i","j","k","l","m",
    "n","o","p","q","r","s","t","u","v","w","x","y","z">>

OrdOf == [c \in {Chars[i] : i \in 1..Len(Chars)} |-> CHOOSE i \in 1..Len(Chars) : Chars[i] = c]

\* ord(c), up to the gaps between the characters of the model
Ord(c) == OrdOf[c]

Whitespace == {"\t", "\n", " "}

IsUpper(c) == Ord(c) >= Ord("A") /\ Ord(c) <= Ord("Z")

LowerOf ==
  [c \in {Chars[i] : i \in 1..Len(Chars)} |->
     IF IsUpper(c) THEN Chars[Ord(c) + (Ord("a") - Ord("A"))] ELSE c]

\* str.lower() on one character
LowerChar(c) == LowerOf[c]

\* str.lower()
Lower(s) == [i \in 1..Len(s) |-> LowerChar(s[i])]

RECURSIVE LStrip(_)
LStrip(s) == IF s # <<>> /\ Head(s) \in Whitespace THEN LStrip(Tail(s)) ELSE s

RECURSIVE RStrip(_)
RStrip(s) ==
  IF s # <<>> /\ s[Len(s)] \in Whitespace THEN RStrip(SubSeq(s, 1, Len(s) - 1)) ELSE s

\* str.strip()
Strip(s) == RStrip(LStrip(s))

\* a mutant of Normalize: the key is lower-cased but not stripped
Normalize_nostrip(state) == Lower(state)

\* key = state.lower().strip()
Normalize(state) == Strip(Lower(state))

\* str < str, by code points
RECURSIVE StrLess(_, _)
StrLess(s, t) ==
  IF s = <<>> THEN t # <<>>
  ELSE IF t = <<>> THEN FALSE
  ELSE IF Head(s) = Head(t) THEN StrLess(Tail(s), Tail(t))
  ELSE Ord(Head(s)) < Ord(Head(t))

\* sorted(keys)
Sorted(keys) == SortSeq(keys, StrLess)

(***************************************************************************)
(* Transport layer (utils.py).                                             *)
(***************************************************************************)
MAX_RETRIES == 3

\* What the network does with one request: a response with a status, or a
\* requests.RequestException raised by requests.get / requests.post.
Response(status) == [kind |-> "response", status |-> status, type |-> ""]
NetException(type) == [kind |-> "exception", status |-> 0, type |-> type]

Statuses == {200, 204, 304, 404, 500}
NetExceptionTypes == {"Timeout", "ConnectionError"}
Outcomes == {Response(s) : s \in Statuses} \cup {NetException(t) : t \in NetExceptionTypes}

\* response.raise_for_status(): HTTPError for 4xx and 5xx
RaisesForStatus(status) == status >= 400 /\ status < 600

\* The exception an attempt ends in, if any.
Exc(type, status, msg) == [type |-> type, status |-> status, msg |-> msg]
HTTPError(status) == Exc("HTTPError", status, <<>>)
RequestException(o) ==
  IF o.kind = "exception" THEN Exc(o.type, 0, <<>>) ELSE HTTPError(o.status)
NoException == Exc("", 0, <<>>)

\* try: response = requests.get(...); response.raise_for_status()
AttemptFails(o) == o.kind = "exception" \/ RaisesForStatus(o.status)

\* a mutant of Backoff: the exponent is the loop variable itself
Backoff_attempt(attempt) == 2 ^ attempt

\* wait = 2 ** (attempt + 1)
Backoff(attempt) == 2 ^ (attempt + 1)

\* a mutant of MayRetry: the last attempt also sleeps and the loop runs out
MayRetry_always(attempt) == attempt < MAX_RETRIES

\* if attempt < MAX_RETRIES - 1
MayRetry(attempt) == attempt < MAX_RETRIES - 1

\* One iteration of "for attempt in range(MAX_RETRIES)" given what the
\* network did with the request: return the response, sleep and go on, or
\* re-raise.
LoopBody(attempt, o) ==
  IF ~AttemptFails(o)
    THEN [do |-> "return", wait |-> 0, exc |-> NoException]
    ELSE IF MayRetry(attempt)
      THEN [do |-> "sleep", wait |-> Backoff(attempt), exc |-> NoException]
      ELSE [do |-> "raise", wait |-> 0, exc |-> RequestException(o)]

\* Python's None
None == <<"None">>

\* the X-XSRF-TOKEN header and the cookies a request is sent with: none,
\* unless the caller passes headers= and cookies=
NoHeaders == [token |-> None, cookies |-> <<>>]

Request(method, url, o) ==
  [ev |-> "request", via |-> method, url |-> url, o |-> o, wait |-> 0, hdr |-> NoHeaders]
Sleep(method, url, w) ==
  [ev |-> "sleep", via |-> method, url |-> url, o |-> Response(0), wait |-> w,
   hdr |-> NoHeaders]

(***************************************************************************)
(* The upstream of one extractor invocation.                               *)
(*   net  = "ok":          requests are answered 200 with a payload of     *)
(*                         `rows` records, but for what rec and ept say    *)
(*   net  = "http500":     every request is answered 500, on every attempt *)
(*   net  = "unreachable": every request ends in a ConnectionError         *)
(*   rec: what the first record of a payload is like                       *)
(*     "good"     native key, coordinates and fields are there             *)
(*     "nokey"    no native key of any kind                                *)
(*     "altkey"   no primary native key, but the alternate one (BW: the    *)
(*                feature id; RP GeoPortal: OBJECTID)                      *)
(*     "missing"  no geometry / coordinate fields at all                   *)
(*     "null"     the geometry container is there and null (JSON null, an  *)
(*                empty XML element)                                       *)
(*     "invalid"  both coordinates are there and are not numbers           *)
(*     "latonly"  the latitude is there, the longitude is not              *)
(*     "nofield"  the fields the name and the school type are read from    *)
(*                are not there                                            *)
(*     "nullfield" they are there and null (JSON null, an empty XML or     *)
(*                HTML element, a CSV row that ends before their column)   *)
(*     "nobox"    the container the extractor reads the fields from is not *)
(*                there                                                    *)
(*     "nullbox"  it is there and null                                     *)
(*   ept: what one endpoint is like                                        *)
(*     "detailfail"  the detail page of the first key answers 500          *)
(*     "detaildown"  the detail page of the first key cannot be reached    *)
(*     "detailbad"   the detail page of the first key answers 200 without  *)
(*                   the expected content                                  *)
(*     "lookupfail"  the key tables answer 500                             *)
(*     "primaryfail" the RP GeoPortal answers 500                          *)
(*     "notoken"     the session page answers 200 and sets no XSRF-TOKEN   *)
(*     "searchfail"  the Niedersachsen search answers 500                  *)
(*     "overlap"     the second Hamburg collection uses the native keys of *)
(*                   the first                                             *)
(***************************************************************************)
Upstream(n, rows) == [net |-> n, rows |-> rows, rec |-> "good", ept |-> "none"]
DefaultUpstream == Upstream("ok", 1)

\* the upstream up with a first record like rec and an endpoint like ept
With(up, rec, ept) == [up EXCEPT !.rec = rec, !.ept = ept]

\* the upstreams the extractors of a scrape_all run meet
Upstreams ==
  {Upstream("ok", n) : n \in 0..MaxRows}
    \cup {Upstream("http500", 0), Upstream("unreachable", 0)}
    \cup {With(Upstream("ok", 1), "good", "notoken")}

\* the upstreams the extractor of a scrape_state call meets
AllUpstreams ==
  Upstreams
    \cup {With(Upstream("ok", n), rec, ept) :
            n \in 1..MaxRows,
            rec \in {"good", "nokey", "altkey", "missing", "null", "invalid", "latonly",
                     "nofield", "nullfield", "nobox", "nullbox"},
            ept \in {"none", "detailfail", "detaildown", "detailbad", "lookupfail",
                     "primaryfail", "notoken", "searchfail", "overlap"}}

\* an endpoint; k > 0 is the detail page of the k-th listed record
Url(path, k) == <<path, k>>

\* the key tables of scrape_sachsen and _NRWHelper
IsKeyTable(url) ==
  url[1] \in {"schuldatenbank.sachsen.de/key_tables/school_types",
              "schulministerium.nrw.de/key_rechtsform.csv",
              "schulministerium.nrw.de/key_schulformschluessel.csv",
              "schulministerium.nrw.de/key_traeger.csv"}

\* what the network does with a request to url
Respond(up, url) ==
  CASE up.net = "http500" -> Response(500)
    [] up.net = "unreachable" -> NetException("ConnectionError")
    [] up.net = "ok" /\ up.ept = "detailfail" /\ url[2] = 1 -> Response(500)
    [] up.net = "ok" /\ up.ept = "detaildown" /\ url[2] = 1 -> NetException("ConnectionError")
    [] up.net = "ok" /\ up.ept = "lookupfail" /\ IsKeyTable(url) -> Response(500)
    [] up.net = "ok" /\ up.ept = "primaryfail" /\ url[1] = "geoportal.rlp.de" -> Response(500)
    [] up.net = "ok" /\ up.ept = "searchfail" /\ url[1] = "schulen.nibis.de/school/search" ->
         Response(500)
    [] OTHER -> Response(200)

\* a 200 page carries the expected content; an error page carries none of it
PageOk(o) == o.kind = "response" /\ o.status = 200

\* the number of rows a response carries
RowsOf(up, o) == IF PageOk(o) THEN up.rows ELSE 0

(***************************************************************************)
(* Values.  Strings are sequences of characters.                           *)
(***************************************************************************)
\* str(k) of a natural number k
RECURSIVE Digits(_)
Digits(k) ==
  IF k < 10 THEN <<(<<"0","1","2","3","4","5","6","7","8","9">>)[k + 1]>>
  ELSE Digits(k \div 10) \o Digits(k % 10)

\* f"{v}": None is written out
Format(v) == IF v = None THEN <<"N","o","n","e">> ELSE v

\* str.zfill(width)
RECURSIVE ZFill(_, _)
ZFill(s, width) == IF Len(s) >= width THEN s ELSE ZFill(<<"0">> \o s, width)

\* a latitude, a longitude, and a coordinate value that is not a number
Lat == <<"5","2",".","5">>
Lon == <<"1","3",".","4">>
NotANumber == <<"a","b","c">>

\* the coded school type of a source record and the label a key table has for it
TypeCode == <<"1","1">>
TypeLabel == <<"G","r","u","n","d","s","c","h","u","l","e">>

\* the k-th source record of a payload whose native keys start after base
SourceRow(up, base, k) ==
  [n |-> k,
   key |-> IF k = 1 /\ up.rec \in {"nokey", "altkey"} THEN None ELSE Digits(base + k),
   alt |-> IF k = 1 /\ up.rec = "nokey" THEN None ELSE Digits(base + k),
   crd |-> IF k = 1 /\ up.rec \in {"missing", "null", "invalid", "latonly"}
             THEN up.rec ELSE "valid",
   name |-> <<"n">> \o Digits(base + k),
   type |-> TypeCode,
   fld |-> IF k = 1 /\ up.rec \in {"nofield", "nullfield", "nobox", "nullbox"}
             THEN up.rec ELSE "there"]

\* the source records a response carries
Payload(up, o, base) == [k \in 1..RowsOf(up, o) |-> SourceRow(up, base, k)]

\* The result of a call made by an extractor, and of an extractor.
CallOk(o, trace) == [raised |-> FALSE, exc |-> NoException, response |-> o, trace |-> trace]
CallFailed(e, trace) == [raised |-> TRUE, exc |-> e, response |-> Response(0), trace |-> trace]
\* the caller uses the None that fell out of the retry loop
AttributeError == Exc("AttributeError", 0, <<>>)

\* r with trace put before its trace
After(trace, r) == [r EXCEPT !.trace = trace \o @]

\* fetch / post run to completion from `attempt` on
RECURSIVE RetryFrom(_, _, _, _)

\* the iteration `attempt` of the retry loop when the network does o
RetryOn(method, url, up, attempt, o) ==
  LET b == LoopBody(attempt, o) IN
  CASE b.do = "return" -> CallOk(o, <<Request(method, url, o)>>)
    [] b.do = "raise" -> CallFailed(b.exc, <<Request(method, url, o)>>)
    [] b.do = "sleep" ->
         After(<<Request(method, url, o), Sleep(method, url, b.wait)>>,
               RetryFrom(method, url, up, attempt + 1))

RetryFrom(method, url, up, attempt) ==
  IF attempt >= MAX_RETRIES THEN CallFailed(AttributeError, <<>>)
  ELSE RetryOn(method, url, up, attempt, Respond(up, url))

\* fetch(url)
Fetch(url, up) == RetryFrom("get", url, up, 0)

\* post(url)
Post(url, up) == RetryFrom("post", url, up, 0)

\* what a requests.Session call makes of o: an exception propagates, a
\* response of any status is returned
SessionResult(method, url, o) ==
  IF o.kind = "exception" THEN CallFailed(Exc(o.type, 0, <<>>), <<Request(method, url, o)>>)
  ELSE CallOk(o, <<Request(method, url, o)>>)

\* session.get(url) / session.post(url) of a requests.Session: one request,
\* no retry, no raise_for_status
SessionRequest(method, url, up) == SessionResult(method, url, Respond(up, url))

\* time.sleep(0.1) after a detail page
Delay(url) ==
  [ev |-> "delay", via |-> "time.sleep", url |-> url, o |-> Response(0), wait |-> 0,
   hdr |-> NoHeaders]

\* School(id=..., name=..., school_type=..., latitude=..., longitude=...)
School(id, name, school_type, latitude, longitude) ==
  [id |-> id, name |-> name, school_type |-> school_type,
   latitude |-> latitude, longitude |-> longitude]

Extracted(schools, trace) ==
  [raised |-> FALSE, exc |-> NoException, schools |-> schools, trace |-> trace]
ExtractorRaised(e, trace) ==
  [raised |-> TRUE, exc |-> e, schools |-> <<>>, trace |-> trace]

(***************************************************************************)
(* Reading the coordinates of one source record.                           *)
(***************************************************************************)
Coords(lat, lon) == [raised |-> FALSE, exc |-> NoException, lat |-> lat, lon |-> lon]
CoordsRaised(e) == [raised |-> TRUE, exc |-> e, lat |-> None, lon |-> None]

\* parse_geojson_features and f.get("lat"), f.get("lon"): the coordinates
\* pair is copied as it is when it has two entries; None.get raises
parse_geojson_features(crd) ==
  CASE crd = "valid" -> Coords(Lat, Lon)
    [] crd = "missing" -> Coords(None, None)
    [] crd = "null" -> CoordsRaised(AttributeError)
    [] crd = "invalid" -> Coords(NotANumber, NotANumber)
    [] crd = "latonly" -> Coords(Lat, None)

\* scrape_baden_wuerttemberg: coords[0], coords[1] of serviceLocationByGeometry
bw_coords(crd) ==
  CASE crd = "valid" -> Coords(Lat, Lon)
    [] crd = "missing" -> Coords(None, None)
    [] crd = "null" -> CoordsRaised(AttributeError)
    [] crd = "invalid" -> Coords(NotANumber, NotANumber)
    [] crd = "latonly" -> Coords(Lat, None)

\* scrape_sachsen: building.get("latitude"), building.get("longitude")
sachsen_coords(crd) ==
  CASE crd = "valid" -> Coords(Lat, Lon)
    [] crd = "missing" -> Coords(None, None)
    [] crd = "null" -> Coords(None, None)
    [] crd = "invalid" -> Coords(NotANumber, NotANumber)
    [] crd = "latonly" -> Coords(Lat, None)

\* scrape_sachsen_anhalt: transformer.transform(x, y) when both are there
sachsen_anhalt_coords(crd) ==
  CASE crd = "valid" -> Coords(Lat, Lon)
    [] crd = "missing" -> Coords(None, None)
    [] crd = "null" -> Coords(None, None)
    [] crd = "invalid" -> CoordsRaised(Exc("TypeError", 0, <<>>))
    [] crd = "latonly" -> Coords(None, None)

\* scrape_nordrhein_westfalen: the transformation inside try / except Exception
nrw_coords(crd) == IF crd = "valid" THEN Coords(Lat, Lon) ELSE Coords(None, None)

\* scrape_schleswig_holstein: float(row[...]) if row.get(...) else None, each
\* coordinate on its own
sh_coords(crd) ==
  CASE crd = "valid" -> Coords(Lat, Lon)
    [] crd = "missing" -> Coords(None, None)
    [] crd = "null" -> Coords(None, None)
    [] crd = "invalid" -> CoordsRaised(Exc("ValueError", 0, <<>>))
    [] crd = "latonly" -> Coords(Lat, None)

\* scrape_bayern, scrape_thueringen, extract_school_data: a, b = pos.split(),
\* float(a), float(b) of the gml:pos of the geometry element
wfs_coords(crd) ==
  CASE crd = "valid" -> Coords(Lat, Lon)
    [] crd = "missing" -> Coords(None, None)
    [] crd = "null" -> CoordsRaised(AttributeError)
    [] crd = "invalid" -> CoordsRaised(Exc("ValueError", 0, <<>>))
    [] crd = "latonly" -> CoordsRaised(Exc("ValueError", 0, <<>>))

\* extract_coords_from_osm_url of scrape_hessen, and the OSM link of
\* _scrape_rlp_html: both floats or, on ValueError / IndexError, neither
osm_coords(crd) == IF crd = "valid" THEN Coords(Lat, Lon) ELSE Coords(None, None)

\* scrape_niedersachsen, scrape_bremen: School(...) without coordinates
no_coords(crd) == Coords(None, None)

(***************************************************************************)
(* Mapping one source record to a School.                                  *)
(***************************************************************************)
\* what one source record gives: nothing (it is skipped), ...
Skipped == [raised |-> FALSE, exc |-> NoException, schools |-> <<>>]

\* ... or, its coordinates read as c, a School or the exception of c
Build(c, id, name, school_type) ==
  IF c.raised THEN [raised |-> TRUE, exc |-> c.exc, schools |-> <<>>]
  ELSE [raised |-> FALSE, exc |-> NoException,
        schools |-> <<School(id, name, school_type, c.lat, c.lon)>>]

\* _NRWHelper.resolve / school_types.get / _RP_SCHOOL_TYPES.get: the label
\* of a code in a key table
resolve(code) == IF code = TypeCode THEN TypeLabel ELSE None

\* a mutant of rlp_html_school: the id is written with another region code
rlp_html_school_rlp(row) ==
  Build(osm_coords(row.crd),
        <<"R","L","P","-">> \o (IF row.key = None THEN <<>> ELSE row.key),
        row.name, resolve(row.type))

\* _scrape_rlp_html: school_id = item.get("Schulnummer", ""), id=f"RP-{school_id}"
rlp_html_school(row) ==
  Build(osm_coords(row.crd),
        <<"R","P","-">> \o (IF row.key = None THEN <<>> ELSE row.key),
        row.name, resolve(row.type))

\* The School(...) expression of each extractor.  row.key is the native key
\* (BW: the DISCH of the e-mail address), row.alt the alternate one.
\*   BW  school_id = f"BW-{disch}" if disch else f"BW-UUID-{uuid}"
\*   HB  id=f"HB-{collection['id']}", collection["id"] = school_id.zfill(3)
\*   HE  school["id"] = detail_url.split("=")[-1]: the whole href when it
\*       carries no id
\*   MV  as_string(item.get("dstnr", "")): "" for a value that is not there
\*   RP  school_id = f.get("schulnummer") or f.get("OBJECTID")
\*   ST  school_id = f"ST-ARC{attrs.get('OBJECTID', 0):05d}"
\*   the others: id=f"XX-{f.get(key)}"
SchoolOfRow(prefix, row) ==
  CASE prefix = "BW" ->
         Build(bw_coords(row.crd),
               IF row.key # None THEN <<"B","W","-">> \o row.key
               ELSE <<"B","W","-","U","U","I","D","-">> \o Format(row.alt),
               row.name, row.type)
    [] prefix = "BY" ->
         Build(wfs_coords(row.crd), <<"B","Y","-">> \o Format(row.key), row.name, row.type)
    [] prefix = "BE" ->
         Build(parse_geojson_features(row.crd), <<"B","E","-">> \o Format(row.key),
               row.name, row.type)
    [] prefix = "BB" ->
         Build(parse_geojson_features(row.crd), <<"B","B","-">> \o Format(row.key),
               row.name, row.type)
    [] prefix = "HB" ->
         Build(no_coords(row.crd), <<"H","B","-">> \o ZFill(row.key, 3), row.name, None)
    [] prefix = "HH" ->
         Build(parse_geojson_features(row.crd), <<"H","H","-">> \o Format(row.key),
               row.name, row.type)
    [] prefix = "HE" ->
         Build(osm_coords(row.crd),
               <<"H","E","-">>
                 \o (IF row.key = None
                       THEN <<"s","c","h","u","l","_","d","b",".","h","t","m","l">>
                       ELSE row.key),
               row.name, row.type)
    [] prefix = "MV" ->
         Build(wfs_coords(row.crd),
               <<"M","V","-">> \o (IF row.key = None THEN <<>> ELSE row.key),
               row.name, row.type)
    [] prefix = "NI" ->
         Build(no_coords(row.crd), <<"N","I","-">> \o Format(row.key), row.name, row.type)
    [] prefix = "NW" ->
         Build(nrw_coords(row.crd), <<"N","W","-">> \o Format(row.key), row.name,
               resolve(row.type))
    [] prefix = "RP" ->
         Build(parse_geojson_features(row.crd),
               <<"R","P","-">> \o Format(IF row.key # None THEN row.key ELSE row.alt),
               row.name, row.type)
    [] prefix = "RP html" -> rlp_html_school(row)
    [] prefix = "SL" ->
         Build(parse_geojson_features(row.crd), <<"S","L","-">> \o Format(row.key),
               row.name, row.type)
    [] prefix = "SN" ->
         Build(sachsen_coords(row.crd), <<"S","N","-">> \o Format(row.key), row.name,
               resolve(row.type))
    [] prefix = "ST" ->
         Build(sachsen_anhalt_coords(row.crd),
               <<"S","T","-","A","R","C">>
                 \o ZFill(IF row.key = None THEN Digits(0) ELSE row.key, 5),
               row.name, row.type)
    [] prefix = "SH" ->
         Build(sh_coords(row.crd), <<"S","H","-">> \o Format(row.key), row.name, None)
    [] prefix = "TH" ->
         Build(wfs_coords(row.crd), <<"T","H","-">> \o Format(row.key), row.name, row.type)

\* What an extractor reads of the fields of one source record: the record
\* as the School(...) expression sees it, or the record is skipped
\* (continue), or an exception.
Read(do, exc, row) == [do |-> do, exc |-> exc, row |-> row]

\* the record with name and school type read as name and type
Named(row, name, type) == Read("row", NoException, [row EXCEPT !.name = name, !.type = type])

\* The container of the fields is
\*   BW  feature["properties"], ST feature["attributes"]: KeyError when it is
\*       not there, None.get when it is null
\*   BE, BB, HH, SL, RP  feature.get("properties", {}) of
\*       parse_geojson_features: props["lon"] = ... on None is a TypeError
\*   BY, MV, TH  the element of the wfs:member; xmltodict gives None for an
\*       empty element, and None has neither values() nor get()
\*   HB  the visitenkarte list, HE the pre elements, RP html the detail
\*       container: continue
\*   NI  (item.get("sdb_art") or {}), SN (item.get("buildings") or [None])[0]
\*   NW, SH  a CSV row has no container
\* and the fields are
\*   BW  name_spelling.get("text", ""), serviceType.get("@href", "")
\*   NI, NW  " ".join([item.get(..., ""), ...]).strip(): None in the list is
\*       a TypeError
\*   HB  if not collection.get("name"): continue
\*   HE  address_lines[1].strip(), and continue when the block has less than
\*       four lines; type_elem.get_text(strip=True)
\*   RP html  h1.get_text(strip=True) if h1 else None; kurz
\*   the others: f.get(...), None either way
read_fields(prefix, row) ==
  CASE row.fld = "there" -> Read("row", NoException, row)
    [] row.fld = "nofield" ->
         (CASE prefix = "BW" -> Named(row, <<>>, <<>>)
            [] prefix \in {"NI", "NW"} -> Named(row, <<>>, None)
            [] prefix \in {"HB", "HE"} -> Read("skip", NoException, row)
            [] OTHER -> Named(row, None, None))
    [] row.fld = "nullfield" ->
         (CASE prefix \in {"NI", "NW"} -> Read("raise", Exc("TypeError", 0, <<>>), row)
            [] prefix = "HB" -> Read("skip", NoException, row)
            [] prefix = "HE" -> Named(row, <<>>, <<>>)
            [] prefix = "RP html" -> Named(row, <<>>, None)
            [] OTHER -> Named(row, None, None))
    [] row.fld \in {"nobox", "nullbox"} ->
         (CASE prefix \in {"BW", "ST"} ->
                 Read("raise",
                      IF row.fld = "nobox" THEN Exc("KeyError", 0, <<>>) ELSE AttributeError,
                      row)
            [] prefix \in {"BY", "MV", "TH"} -> Read("raise", AttributeError, row)
            [] prefix \in {"BE", "BB", "HH", "SL", "RP"} ->
                 IF row.fld = "nullbox" THEN Read("raise", Exc("TypeError", 0, <<>>), row)
                 ELSE Named([row EXCEPT !.key = None, !.alt = None], None, None)
            [] prefix \in {"HB", "HE", "RP html"} -> Read("skip", NoException, row)
            [] prefix = "NI" -> Named(row, row.name, None)
            [] prefix = "SN" -> Named([row EXCEPT !.crd = "missing"], row.name, None)
            [] OTHER -> Read("row", NoException, row))

\* what the source record read as f gives
SchoolRead(f, prefix) ==
  CASE f.do = "raise" -> [raised |-> TRUE, exc |-> f.exc, schools |-> <<>>]
    [] f.do = "skip" -> Skipped
    [] f.do = "row" -> SchoolOfRow(prefix, f.row)

\* one iteration of the loop over the source records
SchoolOf(prefix, row) == SchoolRead(read_fields(prefix, row), prefix)

(***************************************************************************)
(* The loops of the extractors.  In the helpers, the first parameters are  *)
(* the results of the calls made so far.                                   *)
(***************************************************************************)
\* fetch(url) of each url in turn; the first failure propagates
RECURSIVE FetchEach(_, _)

\* f is the result of the first fetch, urls are the ones still to fetch
FetchRest(f, urls, up) == IF f.raised THEN f ELSE After(f.trace, FetchEach(urls, up))

FetchEach(urls, up) ==
  IF urls = <<>> THEN CallOk(Response(200), <<>>)
  ELSE FetchRest(Fetch(Url(Head(urls), 0), up), Tail(urls), up)

\* the loop over the source records of a payload: an exception ends it
RECURSIVE MapEach(_, _)

\* r is what the first record gave, rest are the records still to map
MapNext(r, prefix, rest) ==
  IF r.raised THEN r
  ELSE [MapEach(prefix, rest) EXCEPT !.schools = r.schools \o @]

MapEach(prefix, rows) ==
  IF rows = <<>> THEN Skipped
  ELSE MapNext(SchoolOf(prefix, Head(rows)), prefix, Tail(rows))

\* the extractor's result after its requests (trace) and its loop (m)
Mapped(m, trace) ==
  IF m.raised THEN ExtractorRaised(m.exc, trace) ELSE Extracted(m.schools, trace)

\* the records of the payload f, the result of the last fetch
MapRows(f, prefix, up) ==
  IF f.raised THEN ExtractorRaised(f.exc, f.trace)
  ELSE Mapped(MapEach(prefix, Payload(up, f.response, 0)), f.trace)

\* an extractor that fetches urls and maps the rows of the last payload
FetchAndMap(urls, prefix, up) == MapRows(FetchEach(urls, up), prefix, up)

\* The detail loop of the HTML extractors: one request per listed record.
\* retry = TRUE: through fetch; retry = FALSE: through session.get.
RECURSIVE DetailLoop(_, _, _, _, _)

\* scrape_niedersachsen: if not schulnr: continue;
\* scrape_bremen: if "Sid=" not in href: continue
NotListed(prefix, row) == prefix \in {"NI", "HB"} /\ row.key = None

\* the detail page d has what the extractor looks for: detail_resp.json(),
\* the visitenkarte list, the pre elements, the detail container
DetailOk(d, row, up) ==
  /\ ~d.raised
  /\ PageOk(d.response)
  /\ ~(up.ept = "detailbad" /\ row.n = 1)

\* the rest of the loop body once the detail page is there: s is what the
\* record gave, rest the result of the later iterations; a record that is
\* skipped (continue) does not reach time.sleep(0.1)
DetailAppend(s, d, url, rest) ==
  IF s.raised THEN ExtractorRaised(s.exc, d.trace)
  ELSE IF s.schools = <<>> THEN After(d.trace, rest)
  ELSE IF rest.raised THEN ExtractorRaised(rest.exc, d.trace \o <<Delay(url)>> \o rest.trace)
  ELSE Extracted(s.schools \o rest.schools, d.trace \o <<Delay(url)>> \o rest.trace)

\* a mutant of DetailStep: the failure of a detail request propagates
DetailStep_fatal(d, url, prefix, row, up, rest) ==
  IF d.raised \/ ~PageOk(d.response)
    THEN ExtractorRaised(IF d.raised THEN d.exc ELSE HTTPError(d.response.status), d.trace)
  ELSE IF DetailOk(d, row, up) THEN DetailAppend(SchoolOf(prefix, row), d, url, rest)
  ELSE After(d.trace, rest)

\* d is the result of the request for a record, rest the result of the later
\* iterations: a request that raised, or a page without the expected
\* content, skips the record (continue)
DetailStep(d, url, prefix, row, up, rest) ==
  IF DetailOk(d, row, up) THEN DetailAppend(SchoolOf(prefix, row), d, url, rest)
  ELSE After(d.trace, rest)

DetailLoop(retry, url, prefix, rows, up) ==
  IF rows = <<>> THEN Extracted(<<>>, <<>>)
  ELSE IF NotListed(prefix, Head(rows)) THEN DetailLoop(retry, url, prefix, Tail(rows), up)
  ELSE DetailStep(IF retry THEN Fetch(Url(url, Head(rows).n), up)
                  ELSE SessionRequest("session.get", Url(url, Head(rows).n), up),
                  Url(url, Head(rows).n), prefix, Head(rows), up,
                  DetailLoop(retry, url, prefix, Tail(rows), up))

(***************************************************************************)
(* The sixteen extractors (scrapers/*.py).                                 *)
(***************************************************************************)
scrape_baden_wuerttemberg(up) == FetchAndMap(<<"gis.kultus-bw.de">>, "BW", up)

scrape_bayern(up) == FetchAndMap(<<"gdiserv.bayern.de">>, "BY", up)

scrape_berlin(up) == FetchAndMap(<<"gdi.berlin.de">>, "BE", up)

scrape_brandenburg(up) == FetchAndMap(<<"schullandschaft.brandenburg.de">>, "BB", up)

\* scrape_bremen after the list page l
bremen_details(l, up) ==
  IF l.raised THEN ExtractorRaised(l.exc, l.trace)
  ELSE After(l.trace,
             DetailLoop(TRUE, "bildung.bremen.de/detail", "HB", Payload(up, l.response, 0), up))

scrape_bremen(up) == bremen_details(Fetch(Url("bildung.bremen.de/list", 0), up), up)

\* scrape_hamburg after the first collection a, mapped as m, and the second one b
hamburg_both(m, a, b, up) ==
  IF b.raised THEN ExtractorRaised(b.exc, a.trace \o b.trace)
  ELSE Mapped(MapNext(m, "HH",
                      Payload(up, b.response, IF up.ept = "overlap" THEN 0 ELSE up.rows)),
              a.trace \o b.trace)

\* scrape_hamburg after the first collection a, mapped as m
hamburg_mapped(m, a, up) ==
  IF m.raised THEN ExtractorRaised(m.exc, a.trace)
  ELSE hamburg_both(m, a, Fetch(Url("api.hamburg.de/nicht_staatliche_schulen", 0), up), up)

\* scrape_hamburg after the first collection a
hamburg_second(a, up) ==
  IF a.raised THEN ExtractorRaised(a.exc, a.trace)
  ELSE hamburg_mapped(MapEach("HH", Payload(up, a.response, 0)), a, up)

scrape_hamburg(up) ==
  hamburg_second(Fetch(Url("api.hamburg.de/staatliche_schulen", 0), up), up)

\* scrape_hessen after the list page l and the search s: a search that
\* raised adds no detail url
hessen_details(l, s, up) ==
  After(l.trace \o s.trace,
        DetailLoop(FALSE, "schul-db.bildung.hessen.de/detail", "HE",
                   IF s.raised THEN <<>> ELSE Payload(up, s.response, 0), up))

\* scrape_hessen after the list page l: the list page of a healthy upstream
\* offers one school type, an error page none
hessen_search(l, up) ==
  IF l.raised THEN ExtractorRaised(l.exc, l.trace)
  ELSE hessen_details(l,
                      IF PageOk(l.response)
                        THEN SessionRequest("session.post",
                                            Url("schul-db.bildung.hessen.de", 0), up)
                        ELSE CallOk(Response(0), <<>>),
                      up)

scrape_hessen(up) ==
  hessen_search(SessionRequest("session.get", Url("schul-db.bildung.hessen.de", 0), up), up)

scrape_mecklenburg_vorpommern(up) == FetchAndMap(<<"geodaten-mv.de">>, "MV", up)

\* The Set-Cookie header of the session page o, as the cookies it sets, each
\* the sequence of its parts <<name, value>>: the token, percent-encoded,
\* and the session id.
SetCookie(o, up) ==
  IF ~PageOk(o) THEN <<>>
  ELSE (IF up.ept = "notoken" THEN <<>>
        ELSE << << <<"XSRF-TOKEN", <<"a","b","%","3","D">> >>, <<"path", <<"/">> >> >> >>)
       \o << << <<"nibis_session", <<"s","1">> >>, <<"path", <<"/">> >> >> >>

\* urllib.parse.unquote, for the escapes of a base64 token
RECURSIVE Unquote(_)
Unquote(s) ==
  IF s = <<>> THEN <<>>
  ELSE IF Len(s) >= 3 /\ s[1] = "%" /\ <<s[2], s[3]>> \in {<<"3","D">>, <<"2","B">>, <<"2","F">>}
    THEN <<CASE <<s[2], s[3]>> = <<"3","D">> -> "="
             [] <<s[2], s[3]>> = <<"2","B">> -> "+"
             [] <<s[2], s[3]>> = <<"2","F">> -> "/">> \o Unquote(SubSeq(s, 4, Len(s)))
  ELSE <<Head(s)>> \o Unquote(Tail(s))

\* the loops over the cookies and their parts: the first XSRF-TOKEN part of
\* the last cookie that has one, unquoted; None when no cookie has one
xsrf_token(header) ==
  LET hits == SelectSeq(header, LAMBDA c : \E p \in 1..Len(c) : c[p][1] = "XSRF-TOKEN")
  IN  IF hits = <<>> THEN None
      ELSE Unquote(SelectSeq(hits[Len(hits)], LAMBDA part : part[1] = "XSRF-TOKEN")[1][2])

\* session_resp.cookies: name and value of every cookie set
Cookies(header) == [j \in 1..Len(header) |-> header[j][1]]

\* the call r, made with headers= and cookies= as hdr says
Carrying(r, hdr) ==
  [r EXCEPT !.trace = [j \in 1..Len(r.trace) |->
                         IF r.trace[j].ev = "request"
                           THEN [r.trace[j] EXCEPT !.hdr = hdr] ELSE r.trace[j]]]

\* scrape_niedersachsen after the session page s and the search q; the
\* detail pages are fetched with cookies=cookies
niedersachsen_details(s, q, up) ==
  IF q.raised THEN ExtractorRaised(q.exc, s.trace \o q.trace)
  ELSE After(s.trace \o q.trace,
             Carrying(DetailLoop(TRUE, "schulen.nibis.de/school/getInfo", "NI",
                                 Payload(up, q.response, 0), up),
                      [token |-> None, cookies |-> Cookies(SetCookie(s.response, up))]))

\* if not xsrf_token is false: the Set-Cookie header of the session page has
\* an XSRF-TOKEN part that is not empty
HasToken(s, up) == xsrf_token(SetCookie(s.response, up)) \notin {None, <<>>}

\* a mutant of niedersachsen_search: the search is posted whether or not a
\* token was found
niedersachsen_search_anyway(s, up) ==
  IF s.raised THEN ExtractorRaised(s.exc, s.trace)
  ELSE niedersachsen_details(s,
         Carrying(Post(Url("schulen.nibis.de/school/search", 0), up),
                  [token |-> xsrf_token(SetCookie(s.response, up)),
                   cookies |-> Cookies(SetCookie(s.response, up))]),
         up)

\* scrape_niedersachsen after the session page s: if not xsrf_token: return [];
\* the search is posted with the token in X-XSRF-TOKEN and cookies=cookies
niedersachsen_search(s, up) ==
  IF s.raised THEN ExtractorRaised(s.exc, s.trace)
  ELSE IF ~HasToken(s, up) THEN Extracted(<<>>, s.trace)
  ELSE niedersachsen_details(s,
         Carrying(Post(Url("schulen.nibis.de/school/search", 0), up),
                  [token |-> xsrf_token(SetCookie(s.response, up)),
                   cookies |-> Cookies(SetCookie(s.response, up))]),
         up)

scrape_niedersachsen(up) ==
  niedersachsen_search(Fetch(Url("schulen.nibis.de/search/advanced", 0), up), up)

\* scrape_nordrhein_westfalen after the data c and the key tables h of _NRWHelper
nrw_rows(c, h, up) ==
  IF h.raised THEN ExtractorRaised(h.exc, c.trace \o h.trace)
  ELSE Mapped(MapEach("NW", Payload(up, c.response, 0)), c.trace \o h.trace)

\* scrape_nordrhein_westfalen after the data c
nrw_helper(c, up) ==
  IF c.raised THEN ExtractorRaised(c.exc, c.trace)
  ELSE nrw_rows(c,
                FetchEach(<<"schulministerium.nrw.de/key_rechtsform.csv",
                            "schulministerium.nrw.de/key_schulformschluessel.csv",
                            "schulministerium.nrw.de/key_traeger.csv">>, up),
                up)

scrape_nordrhein_westfalen(up) ==
  nrw_helper(Fetch(Url("schulministerium.nrw.de/schuldaten.csv", 0), up), up)

\* _scrape_rlp_html() after the list page l
rlp_html_details(l, up) ==
  IF l.raised THEN ExtractorRaised(l.exc, l.trace)
  ELSE After(l.trace,
             DetailLoop(FALSE, "bildung.rlp.de/einzelanzeige", "RP html",
                        Payload(up, l.response, 0), up))

\* _scrape_rlp_html()
scrape_rlp_html(up) ==
  rlp_html_details(SessionRequest("session.get", Url("bildung.rlp.de/schulen", 0), up), up)

\* the try block of scrape_rheinland_pfalz after the GeoPortal fetch g
rlp_primary(g, up) == MapRows(g, "RP", up)

\* a mutant of rlp_fallback: the HTML pages are scraped whatever the GeoPortal gave
rlp_fallback_always(p, up) == After(p.trace, scrape_rlp_html(up))

\* scrape_rheinland_pfalz after the try block p: except Exception falls back
rlp_fallback(p, up) ==
  IF ~p.raised THEN p ELSE After(p.trace, scrape_rlp_html(up))

scrape_rheinland_pfalz(up) ==
  rlp_fallback(rlp_primary(Fetch(Url("geoportal.rlp.de", 0), up), up), up)

scrape_saarland(up) == FetchAndMap(<<"geoportal.saarland.de">>, "SL", up)

scrape_sachsen(up) ==
  FetchAndMap(<<"schuldatenbank.sachsen.de/key_tables/school_types",
                "schuldatenbank.sachsen.de/schools">>, "SN", up)

scrape_sachsen_anhalt(up) == FetchAndMap(<<"services-eu1.arcgis.com">>, "ST", up)

scrape_schleswig_holstein(up) == FetchAndMap(<<"opendata.schleswig-holstein.de">>, "SH", up)

scrape_thueringen(up) == FetchAndMap(<<"geoproxy.geoportal-th.de">>, "TH", up)

(***************************************************************************)
(* The registry (runner.py).                                               *)
(***************************************************************************)
K_baden_wuerttemberg == <<"b","a","d","e","n","-","w","u","e","r","t","t","e","m","b","e","r","g">>
K_bayern == <<"b","a","y","e","r","n">>
K_berlin == <<"b","e","r","l","i","n">>
K_brandenburg == <<"b","r","a","n","d","e","n","b","u","r","g">>
K_bremen == <<"b","r","e","m","e","n">>
K_hamburg == <<"h","a","m","b","u","r","g">>
K_hessen == <<"h","e","s","s","e","n">>
K_mecklenburg_vorpommern == <<"m","e","c","k","l","e","n","b","u","r","g","-","v","o","r","p","o","m","m","e","r","n">>
K_niedersachsen == <<"n","i","e","d","e","r","s","a","c","h","s","e","n">>
K_nordrhein_westfalen == <<"n","o","r","d","r","h","e","i","n","-","w","e","s","t","f","a","l","e","n">>
K_rheinland_pfalz == <<"r","h","e","i","n","l","a","n","d","-","p","f","a","l","z">>
K_saarland == <<"s","a","a","r","l","a","n","d">>
K_sachsen == <<"s","a","c","h","s","e","n">>
K_sachsen_anhalt == <<"s","a","c","h","s","e","n","-","a","n","h","a","l","t">>
K_schleswig_holstein == <<"s","c","h","l","e","s","w","i","g","-","h","o","l","s","t","e","i","n">>
K_thueringen == <<"t","h","u","e","r","i","n","g","e","n">>

\* the keys of SCRAPERS, in insertion order
RegistryKeys ==
  <<K_baden_wuerttemberg, K_bayern, K_berlin, K_brandenburg, K_bremen, K_hamburg,
    K_hessen, K_mecklenburg_vorpommern, K_niedersachsen, K_nordrhein_westfalen,
    K_rheinland_pfalz, K_saarland, K_sachsen, K_sachsen_anhalt, K_schleswig_holstein,
    K_thueringen>>

\* SCRAPERS[key]()
CallScraper(key, up) ==
  CASE key = K_baden_wuerttemberg -> scrape_baden_wuerttemberg(up)
    [] key = K_bayern -> scrape_bayern(up)
    [] key = K_berlin -> scrape_berlin(up)
    [] key = K_brandenburg -> scrape_brandenburg(up)
    [] key = K_bremen -> scrape_bremen(up)
    [] key = K_hamburg -> scrape_hamburg(up)
    [] key = K_hessen -> scrape_hessen(up)
    [] key = K_mecklenburg_vorpommern -> scrape_mecklenburg_vorpommern(up)
    [] key = K_niedersachsen -> scrape_niedersachsen(up)
    [] key = K_nordrhein_westfalen -> scrape_nordrhein_westfalen(up)
    [] key = K_rheinland_pfalz -> scrape_rheinland_pfalz(up)
    [] key = K_saarland -> scrape_saarland(up)
    [] key = K_sachsen -> scrape_sachsen(up)
    [] key = K_sachsen_anhalt -> scrape_sachsen_anhalt(up)
    [] key = K_schleswig_holstein -> scrape_schleswig_holstein(up)
    [] key = K_thueringen -> scrape_thueringen(up)

\* key in SCRAPERS
Known(key, registry) == \E i \in 1..Len(registry) : registry[i] = key

\* str(e)
Str(e) == <<e.type, e.status>> \o e.msg

\* a mutant of UnknownState: the message does not list the valid keys
UnknownState_bare(state, registry) ==
  Exc("ValueError", 0, <<"Unknown state", state, "Available", <<>>>>)

\* ValueError(f"Unknown state '{state}'. Available: {available}")
UnknownState(state, registry) ==
  Exc("ValueError", 0, <<"Unknown state", state, "Available", Sorted(registry)>>)

\* targets = states or list(SCRAPERS.keys()); given = FALSE stands for None
Targets(given, states, registry) ==
  IF given /\ states # <<>> THEN states ELSE registry

\* errors[key] = message, on a dict kept as a sequence of <<key, message>>
DictSet(d, key, message) ==
  IF \E i \in 1..Len(d) : d[i][1] = key
    THEN [i \in 1..Len(d) |-> IF d[i][1] = key THEN <<key, message>> ELSE d[i]]
    ELSE Append(d, <<key, message>>)

\* errors.keys()
DictKeys(d) == [i \in 1..Len(d) |-> d[i][1]]

\* a mutant of Reraises: the failure always propagates
Reraises_always(on_error) == TRUE

\* a mutant of Reraises: the failure never propagates
Reraises_never(on_error) == FALSE

\* if on_error == "raise": raise
Reraises(on_error) == on_error = "raise"

\* a mutant of Extend: the new records go first
Extend_front(schools, more) == more \o schools

\* all_schools.extend(schools)
Extend(schools, more) == schools \o more

\* len(targets) - len(errors), the number of states of the summary line
SummaryStates(tg, errs) == Len(tg) - Len(errs)

\* the lines scrape_all prints
Line(line, key, n, m) == [line |-> line, key |-> key, n |-> n, m |-> m]

VARIABLES
  \* runner.py
  SCRAPERS,     \* the registry: its keys, in insertion order
  op,           \* the call being made: scrape_all(states, on_error) or scrape_state(state)
  pc,           \* position in the call
  targets,      \* scrape_all: targets
  idx,          \* scrape_all: index of the next element of targets
  all_schools,  \* scrape_all: all_schools
  errors,       \* scrape_all: errors, a dict as a sequence of <<key, message>>
  out,          \* lines printed
  calls,        \* extractor invocations so far, with what each did
  net,          \* requests sent so far
  deviations,   \* invocations so far whose upstream was not the default one
  ret,          \* how the call ended
  \* utils.py, a call of fetch or post
  t_method,     \* "get" for fetch, "post" for post
  t_attempt,    \* the loop variable
  t_trace,      \* requests sent and sleeps done, in order
  t_ret         \* how the call ended

runnerVars == <<SCRAPERS, op, pc, targets, idx, all_schools, errors, out, calls, net,
                deviations, ret>>
transportVars == <<t_method, t_attempt, t_trace, t_ret>>
vars == <<SCRAPERS, op, pc, targets, idx, all_schools, errors, out, calls, net,
          deviations, ret, t_method, t_attempt, t_trace, t_ret>>

Pending == [kind |-> "pending", value |-> <<>>, exc |-> NoException]
Returned(v) == [kind |-> "return", value |-> v, exc |-> NoException]
Raised(e) == [kind |-> "raise", value |-> <<>>, exc |-> e]
\* a function that runs off its end returns None
ReturnedNone == [kind |-> "return_none", value |-> <<>>, exc |-> NoException]

TransportUrl == <<"url", 0>>

\* One iteration of the retry loop of fetch / post.
RetryLoop(method) ==
  /\ t_method = method
  /\ t_ret = Pending
  /\ t_attempt < MAX_RETRIES
  /\ \E o \in Outcomes :
       LET b == LoopBody(t_attempt, o)
           sent == Append(t_trace, Request(method, TransportUrl, o))
       IN  CASE b.do = "return" ->
                  /\ t_trace' = sent
                  /\ t_ret' = Returned(o)
                  /\ UNCHANGED t_attempt
             [] b.do = "sleep" ->
                  /\ t_trace' = Append(sent, Sleep(method, TransportUrl, b.wait))
                  /\ t_attempt' = t_attempt + 1
                  /\ t_ret' = IF t_attempt + 1 < MAX_RETRIES THEN Pending ELSE ReturnedNone
             [] b.do = "raise" ->
                  /\ t_trace' = sent
                  /\ t_ret' = Raised(b.exc)
                  /\ UNCHANGED t_attempt
  /\ UNCHANGED <<t_method, runnerVars>>

fetch == RetryLoop("get")

post == RetryLoop("post")

RunnerIdle ==
  /\ SCRAPERS = <<>>
  /\ op = [name |-> "none"]
  /\ pc = "idle"
  /\ targets = <<>>
  /\ idx = 0
  /\ all_schools = <<>>
  /\ errors = <<>>
  /\ out = <<>>
  /\ calls = <<>>
  /\ net = <<>>
  /\ deviations = 0
  /\ ret = Pending

TransportIdle ==
  /\ t_method = "none"
  /\ t_attempt = 0
  /\ t_trace = <<>>
  /\ t_ret = Pending

InitTransport ==
  /\ t_method \in {"get", "post"}
  /\ t_attempt = 0
  /\ t_trace = <<>>
  /\ t_ret = Pending
  /\ RunnerIdle

NextTransport == fetch \/ post

SpecTransport == InitTransport /\ [][NextTransport]_vars

(***************************************************************************)
(* The orchestrator (runner.py).                                           *)
(***************************************************************************)
\* Keys a caller passes.
S_BERLIN_sp == <<"B","E","R","L","I","N"," ">>
S_sp_Berlin == <<" ","B","e","r","l","i","n">>
S_tab_Hessen_nl == <<"\t","H","e","s","s","e","n","\n">>
S_Rheinland_Pfalz == <<"R","h","e","i","n","l","a","n","d","-","P","f","a","l","z">>
S_atlantis == <<"a","t","l","a","n","t","i","s">>
S_ber_lin == <<"b","e","r"," ","l","i","n">>
S_empty == <<>>

KeyPool == {K_berlin, S_BERLIN_sp, S_tab_Hessen_nl, K_rheinland_pfalz, S_atlantis, S_empty}

KeyInputs ==
  KeyPool \cup {RegistryKeys[i] : i \in 1..Len(RegistryKeys)}
    \cup {S_sp_Berlin, S_Rheinland_Pfalz, S_ber_lin}

\* the lists scrape_all is called with: every list over the pool up to
\* MaxTargets long, and every region followed by berlin
RequestLists ==
  UNION {[1..n -> KeyPool] : n \in 0..MaxTargets}
    \cup {<<RegistryKeys[i], K_berlin>> : i \in 1..Len(RegistryKeys)}

Ops ==
  {[name |-> "scrape_state", state |-> k, given |-> FALSE, states |-> <<>>, on_error |-> ""] :
     k \in KeyInputs}
  \cup
  {[name |-> "scrape_all", state |-> <<>>, given |-> TRUE, states |-> l, on_error |-> e] :
     l \in RequestLists, e \in {"skip", "raise"}}
  \cup
  {[name |-> "scrape_all", state |-> <<>>, given |-> FALSE, states |-> <<>>, on_error |-> e] :
     e \in {"skip", "raise"}}

Init ==
  /\ SCRAPERS = RegistryKeys
  /\ op \in Ops
  /\ pc = "start"
  /\ targets = <<>>
  /\ idx = 0
  /\ all_schools = <<>>
  /\ errors = <<>>
  /\ out = <<>>
  /\ calls = <<>>
  /\ net = <<>>
  /\ deviations = 0
  /\ ret = Pending
  /\ TransportIdle

\* the upstream an invocation may meet: any one in a run over a short list,
\* a bounded number of other than the default ones in a longer run
MayMeet(up) ==
  up = DefaultUpstream \/ Len(targets) <= MaxTargets \/ deviations < MaxDeviations
Deviation(up) == IF up = DefaultUpstream THEN 0 ELSE 1

\* the session page is Niedersachsen's: to the other extractors an upstream
\* without token is the default one
Concerns(up, key) == up.ept = "notoken" => key = K_niedersachsen

Invocation(key, up, r) == [key |-> key, up |-> up, result |-> r]

\* the bookkeeping of an invocation of the extractor of key that did r
Invoked(key, up, r) ==
  /\ calls' = Append(calls, Invocation(key, up, r))
  /\ net' = net \o r.trace
  /\ deviations' = deviations + Deviation(up)

\* scrape_state(state), unknown key
scrape_state_unknown ==
  /\ op.name = "scrape_state" /\ pc = "start"
  /\ ~Known(Normalize(op.state), SCRAPERS)
  /\ ret' = Raised(UnknownState(op.state, SCRAPERS))
  /\ pc' = "done"
  /\ UNCHANGED <<SCRAPERS, op, targets, idx, all_schools, errors, out, calls, net,
                 deviations, transportVars>>

\* return SCRAPERS[key]()
ScrapeStateCall(key, up, r) ==
  /\ Invoked(key, up, r)
  /\ ret' = IF r.raised THEN Raised(r.exc) ELSE Returned(r.schools)

\* scrape_state(state), known key
scrape_state ==
  /\ op.name = "scrape_state" /\ pc = "start"
  /\ Known(Normalize(op.state), SCRAPERS)
  /\ \E up \in AllUpstreams :
       ScrapeStateCall(Normalize(op.state), up, CallScraper(Normalize(op.state), up))
  /\ pc' = "done"
  /\ UNCHANGED <<SCRAPERS, op, targets, idx, all_schools, errors, out, transportVars>>

\* scrape_all: lines 90-92
scrape_all_begin ==
  /\ op.name = "scrape_all" /\ pc = "start"
  /\ targets' = Targets(op.given, op.states, SCRAPERS)
  /\ idx' = 1
  /\ all_schools' = <<>>
  /\ errors' = <<>>
  /\ pc' = "loop"
  /\ UNCHANGED <<SCRAPERS, op, out, calls, net, deviations, ret, transportVars>>

\* a mutant of scrape_all_unknown: an unknown key is fatal, as in scrape_state
scrape_all_unknown_fatal ==
  /\ op.name = "scrape_all" /\ pc = "loop" /\ idx <= Len(targets)
  /\ ~Known(Normalize(targets[idx]), SCRAPERS)
  /\ out' = Append(out, Line("unknown", targets[idx], 0, 0))
  /\ ret' = Raised(UnknownState(targets[idx], SCRAPERS))
  /\ pc' = "done"
  /\ UNCHANGED <<SCRAPERS, op, idx, targets, all_schools, errors, calls, net, deviations,
                 transportVars>>

\* scrape_all: an iteration for a key that is not in the registry
scrape_all_unknown ==
  /\ op.name = "scrape_all" /\ pc = "loop" /\ idx <= Len(targets)
  /\ ~Known(Normalize(targets[idx]), SCRAPERS)
  /\ out' = Append(out, Line("unknown", targets[idx], 0, 0))
  /\ idx' = idx + 1
  /\ UNCHANGED <<SCRAPERS, op, pc, targets, all_schools, errors, calls, net, deviations,
                 ret, transportVars>>

\* the try block when the extractor of key returned r
TryOk(key, up, r) ==
  /\ ~r.raised
  /\ Invoked(key, up, r)
  /\ out' = out \o <<Line("scraping", key, 0, 0), Line("ok", key, Len(r.schools), 0)>>
  /\ all_schools' = Extend(all_schools, r.schools)
  /\ idx' = idx + 1

\* scrape_all: an iteration whose extractor returns
scrape_all_ok ==
  /\ op.name = "scrape_all" /\ pc = "loop" /\ idx <= Len(targets)
  /\ Known(Normalize(targets[idx]), SCRAPERS)
  /\ \E up \in Upstreams :
       /\ MayMeet(up)
       /\ Concerns(up, Normalize(targets[idx]))
       /\ TryOk(Normalize(targets[idx]), up, CallScraper(Normalize(targets[idx]), up))
  /\ UNCHANGED <<SCRAPERS, op, pc, targets, errors, ret, transportVars>>

\* the except block when the extractor of key raised, r
Except(key, up, r) ==
  /\ r.raised
  /\ Invoked(key, up, r)
  /\ out' = out \o <<Line("scraping", key, 0, 0), Line("failed", Str(r.exc), 0, 0)>>
  /\ errors' = DictSet(errors, key, Str(r.exc))
  /\ IF Reraises(op.on_error)
       THEN /\ ret' = Raised(r.exc)
            /\ pc' = "done"
            /\ UNCHANGED idx
       ELSE /\ idx' = idx + 1
            /\ UNCHANGED <<ret, pc>>

\* scrape_all: an iteration whose extractor raises
scrape_all_failed ==
  /\ op.name = "scrape_all" /\ pc = "loop" /\ idx <= Len(targets)
  /\ Known(Normalize(targets[idx]), SCRAPERS)
  /\ \E up \in Upstreams :
       /\ MayMeet(up)
       /\ Concerns(up, Normalize(targets[idx]))
       /\ Except(Normalize(targets[idx]), up, CallScraper(Normalize(targets[idx]), up))
  /\ UNCHANGED <<SCRAPERS, op, targets, all_schools, transportVars>>

\* scrape_all: lines 115-119, after the loop
scrape_all_end ==
  /\ op.name = "scrape_all" /\ pc = "loop" /\ idx > Len(targets)
  /\ out' = out
       \o <<Line("total", <<>>, Len(all_schools), SummaryStates(targets, errors))>>
       \o (IF errors # <<>> THEN <<Line("errors", DictKeys(errors), Len(errors), 0)>>
           ELSE <<>>)
  /\ ret' = Returned(all_schools)
  /\ pc' = "done"
  /\ UNCHANGED <<SCRAPERS, op, targets, idx, all_schools, errors, calls, net, deviations,
                 transportVars>>

Next ==
  \/ scrape_state_unknown
  \/ scrape_state
  \/ scrape_all_begin
  \/ scrape_all_unknown
  \/ scrape_all_ok
  \/ scrape_all_failed
  \/ scrape_all_end

Spec == Init /\ [][Next]_vars

(***************************************************************************)
(* Properties of the orchestrator (under Spec).                            *)
(***************************************************************************)
Done == pc = "done"
IsScrapeAll == op.name = "scrape_all"
IsScrapeState == op.name = "scrape_state"

UpperLetters == <<"A","B","C","D","E","F","G","H","I","J","K","L","M",
                  "N","O","P","Q","R","S","T","U","V","W","X","Y","Z">>
LowerLetters == <<"a","b","c","d","e","f","g","h","i","j","k","l","m",
                  "n","o","p","q","r","s","t","u","v","w","x","y","z">>
Blank == {" ", "\t", "\n"}

\* two characters that are equal up to case
SameLetter(a, b) ==
  a = b \/ \E i \in 1..26 : {a, b} = {UpperLetters[i], LowerLetters[i]}

\* s is r up to case and surrounding whitespace
Names(s, r) ==
  \E lead \in 0..Len(s) :
    /\ lead + Len(r) <= Len(s)
    /\ \A j \in 1..lead : s[j] \in Blank
    /\ \A j \in 1..Len(r) : SameLetter(s[lead + j], r[j])
    /\ \A j \in (lead + Len(r) + 1)..Len(s) : s[j] \in Blank

SixteenKeys == {RegistryKeys[i] : i \in 1..Len(RegistryKeys)}

\* the regions each key a call can be given names
NamedBy == [s \in KeyInputs |-> {r \in SixteenKeys : Names(s, r)}]

\* s names one of the sixteen regions
NamesRegion(s) == NamedBy[s] # {}

\* the keys the caller requested, or the registry's when none were given
Requested == IF op.given /\ op.states # <<>> THEN op.states ELSE RegistryKeys

RequestedRegions == SelectSeq(Requested, NamesRegion)

CallRaised(i) == calls[i].result.raised
SomeCallRaised == \E i \in 1..Len(calls) : CallRaised(i)

\* the records invocations i.. contributed, in order
RECURSIVE Contributed(_)
Contributed(i) ==
  IF i > Len(calls) THEN <<>>
  ELSE (IF CallRaised(i) THEN <<>> ELSE calls[i].result.schools) \o Contributed(i + 1)

ErrorKeys == {errors[j][1] : j \in 1..Len(errors)}
FailedKeys == {calls[i].key : i \in {n \in 1..Len(calls) : CallRaised(n)}}

LinesOf(kind) == SelectSeq(out, LAMBDA l : l.line = kind)

\* C1: scrape_all with on_error = "skip" never raises; when it is done it has
\* returned a list, and whenever an invoked extractor raised, the errors map
\* is non-empty and is reported.
C1_SkipNeverRaises ==
  (IsScrapeAll /\ op.on_error = "skip")
    => /\ ret.kind # "raise"
       /\ Done => ret.kind = "return"
       /\ SomeCallRaised => errors # <<>>
       /\ (Done /\ SomeCallRaised) => Len(LinesOf("errors")) = 1

\* a skip run in which every invoked extractor raised
C1_Witness ==
  /\ IsScrapeAll /\ op.on_error = "skip" /\ Done
  /\ Len(calls) >= 2
  /\ \A i \in 1..Len(calls) : CallRaised(i)
  /\ ret = Returned(<<>>)

\* C2: scrape_all with on_error = "raise": an invocation that raises is the
\* last invocation of the run, and the call has ended raising that very
\* exception.
C2_RaiseStopsAtFirstFailure ==
  (IsScrapeAll /\ op.on_error = "raise")
    => \A i \in 1..Len(calls) :
         CallRaised(i) => /\ i = Len(calls)
                          /\ Done
                          /\ ret = Raised(calls[i].result.exc)

\* a raise run stopped by its second or later extractor with keys still to go
C2_Witness ==
  /\ IsScrapeAll /\ op.on_error = "raise" /\ Done
  /\ ret.kind = "raise"
  /\ Len(calls) >= 2
  /\ \E p \in (idx + 1)..Len(targets) : NamesRegion(targets[p])

\* C3: in a skip run over a region R whose every request is answered 500 and
\* a healthy region, the result is the healthy region's records and R is in
\* the failure report.
C3_AllRequestsFailMeansRegionFailed ==
  (IsScrapeAll /\ op.on_error = "skip" /\ Done /\ Len(calls) = 2
     /\ calls[1].up.net = "http500" /\ calls[2].up.net = "ok")
    => /\ ret = Returned(calls[2].result.schools)
       /\ calls[1].key \in ErrorKeys
       /\ Len(LinesOf("ok")) = 1

\* C4: in skip mode the list returned is the concatenation, in the order of
\* the requested keys, of the record lists of the invocations that returned:
\* one invocation per requested key that names a region, in order; a key
\* whose extractor raised is in errors with the description of one of its
\* failures, and errors holds no other key.
C4_SkipConcatenation ==
  (IsScrapeAll /\ op.on_error = "skip" /\ Done)
    => /\ Len(calls) = Len(RequestedRegions)
       /\ \A i \in 1..Len(calls) : calls[i].key \in NamedBy[RequestedRegions[i]]
       /\ ret = Returned(Contributed(1))
       /\ ErrorKeys = FailedKeys
       /\ \A j \in 1..Len(errors) :
            \E i \in 1..Len(calls) :
              /\ calls[i].key = errors[j][1]
              /\ CallRaised(i)
              /\ errors[j][2][1] = calls[i].result.exc.type

\* a skip run with a failed region between two regions that contributed
C4_Witness ==
  /\ IsScrapeAll /\ op.on_error = "skip" /\ Done
  /\ \E i, j, k \in 1..Len(calls) :
       /\ i < j /\ j < k
       /\ ~CallRaised(i) /\ calls[i].result.schools # <<>>
       /\ CallRaised(j)
       /\ ~CallRaised(k) /\ calls[k].result.schools # <<>>

\* the requested keys the loop has dealt with so far
Processed ==
  IF ~IsScrapeAll \/ pc = "start" THEN <<>>
  ELSE IF pc = "loop" THEN SubSeq(Requested, 1, idx - 1)
  ELSE IF ret.kind = "raise" THEN SubSeq(Requested, 1, idx)
  ELSE Requested

NamesNoRegion(s) == ~NamesRegion(s)

\* C5: in scrape_all, under either policy, the unknown keys dealt with so far
\* are exactly the ones reported as unknown, in order; extractors were invoked
\* for the other keys only, one each; no key of errors is other than a
\* registry key whose extractor raised; the call raises only the exception of
\* an extractor; and a call that returned has dealt with every requested key.
C5_UnknownKeySkipped ==
  IsScrapeAll
    => /\ [i \in 1..Len(LinesOf("unknown")) |-> LinesOf("unknown")[i].key]
            = SelectSeq(Processed, NamesNoRegion)
       /\ Len(calls) = Len(SelectSeq(Processed, NamesRegion))
       /\ \A i \in 1..Len(calls) : calls[i].key \in SixteenKeys
       /\ ErrorKeys \subseteq FailedKeys
       /\ ret.kind = "raise"
            => (calls # <<>> /\ CallRaised(Len(calls))
                  /\ ret.exc = calls[Len(calls)].result.exc)
       /\ (Done /\ ret.kind # "raise") => Len(calls) = Len(RequestedRegions)

\* a raise-mode run that met an unknown key first and then scraped a region
C5_Witness ==
  /\ IsScrapeAll /\ op.on_error = "raise" /\ Done
  /\ Len(Requested) = 2
  /\ ~NamesRegion(Requested[1])
  /\ NamesRegion(Requested[2])
  /\ Len(calls) = 1
  /\ ret.kind = "return"

\* C6: when scrape_all completes, the summary reports the length of the
\* returned list, the number of requested regions whose extractor returned,
\* and exactly the keys whose extractor raised.
C6_SummaryCounts ==
  (IsScrapeAll /\ Done /\ ret.kind = "return")
    => /\ Len(LinesOf("total")) = 1
       /\ LinesOf("total")[1].n = Len(ret.value)
       /\ LinesOf("total")[1].m = Cardinality({i \in 1..Len(calls) : ~CallRaised(i)})
       /\ IF FailedKeys = {} THEN LinesOf("errors") = <<>>
          ELSE /\ Len(LinesOf("errors")) = 1
               /\ {LinesOf("errors")[1].key[j] : j \in 1..Len(LinesOf("errors")[1].key)}
                    = FailedKeys

\* C7: scrape_state with a key that names a region up to case and
\* surrounding whitespace invokes that region's extractor, once, and no
\* other, and ends as the extractor ended: returning its records or raising
\* its exception.
C7_ScrapeStateNormalizes ==
  (IsScrapeState /\ Done)
    => \A r \in NamedBy[op.state] :
         /\ Len(calls) = 1
         /\ calls[1].key = r
         /\ ret = IF CallRaised(1) THEN Raised(calls[1].result.exc)
                  ELSE Returned(calls[1].result.schools)

\* scrape_state("BERLIN ") ended with the failure of the berlin extractor
C7_Witness ==
  /\ IsScrapeState /\ Done
  /\ op.state = S_BERLIN_sp
  /\ Len(calls) = 1
  /\ calls[1].key = K_berlin
  /\ ret.kind = "raise"
  /\ ret.exc.type = "HTTPError"

\* C8: the registry always holds its sixteen distinct keys; scrape_state with
\* a key that names none of them raises a ValueError whose message lists all
\* sixteen, without having invoked an extractor or sent a request.
C8_UnknownStateError ==
  /\ SCRAPERS = RegistryKeys
  /\ Len(SCRAPERS) = 16
  /\ Cardinality({SCRAPERS[i] : i \in 1..Len(SCRAPERS)}) = 16
  /\ (IsScrapeState /\ Done /\ ~NamesRegion(op.state))
       => /\ ret.kind = "raise"
          /\ ret.exc.type = "ValueError"
          /\ ret.exc.msg[2] = op.state
          /\ {ret.exc.msg[4][i] : i \in 1..Len(ret.exc.msg[4])} = SixteenKeys
          /\ Len(ret.exc.msg[4]) = 16
          /\ calls = <<>>
          /\ net = <<>>

\* scrape_state("ber lin") has raised
C8_Witness ==
  /\ IsScrapeState /\ Done
  /\ op.state = S_ber_lin
  /\ ret.kind = "raise"

(***************************************************************************)
(* Properties of the transport layer (under SpecTransport).                *)
(***************************************************************************)
IsRequest(e) == e.ev = "request"
RequestsOf(tr) == SelectSeq(tr, IsRequest)

RECURSIVE SumWaits(_)
SumWaits(tr) == IF tr = <<>> THEN 0 ELSE Head(tr).wait + SumWaits(Tail(tr))

\* a transport-level failure: timeout, connection error, error status
TransportFailure(o) == o.kind = "exception" \/ o.status >= 400

\* the underlying cause of a failed attempt
CauseOf(o) == IF o.kind = "exception" THEN [type |-> o.type, status |-> 0, msg |-> <<>>]
              ELSE [type |-> "HTTPError", status |-> o.status, msg |-> <<>>]

\* the number of requests among the first i events of the trace
RequestIndex(tr, i) == Len(RequestsOf(SubSeq(tr, 1, i)))

ExpectedWait == <<2, 4>>

\* C9: fetch and post send at most 3 requests per call and send none after
\* the first attempt that succeeds, which they return; between the k-th
\* request and the next one (k = 1, 2) the k-th has failed and exactly one
\* sleep of 2^k happens; failing twice and then succeeding returns the
\* success after sleeping 2 + 4 in total, and a first-attempt success sleeps
\* not at all.
C9_RetryBackoff ==
  LET reqs == RequestsOf(t_trace) IN
  /\ Len(reqs) <= 3
  /\ \A i \in 1..Len(t_trace) :
       (IsRequest(t_trace[i]) /\ ~TransportFailure(t_trace[i].o))
         => (i = Len(t_trace) /\ t_ret = Returned(t_trace[i].o))
  /\ \A i \in 1..Len(t_trace) :
       (IsRequest(t_trace[i]) /\ \E j \in (i+1)..Len(t_trace) : IsRequest(t_trace[j]))
         => /\ TransportFailure(t_trace[i].o)
            /\ RequestIndex(t_trace, i) \in 1..2
            /\ t_trace[i+1].ev = "sleep"
            /\ t_trace[i+1].wait = ExpectedWait[RequestIndex(t_trace, i)]
            /\ IsRequest(t_trace[i+2])
  /\ (Len(reqs) = 3 /\ TransportFailure(reqs[1].o) /\ TransportFailure(reqs[2].o)
        /\ ~TransportFailure(reqs[3].o))
       => (t_ret = Returned(reqs[3].o) /\ SumWaits(t_trace) = 2 + 4)
  /\ (Len(reqs) >= 1 /\ ~TransportFailure(reqs[1].o))
       => (t_ret = Returned(reqs[1].o) /\ SumWaits(t_trace) = 0 /\ Len(reqs) = 1)

\* a call that failed twice and then succeeded
C9_Witness ==
  LET reqs == RequestsOf(t_trace) IN
  /\ Len(reqs) = 3
  /\ TransportFailure(reqs[1].o) /\ TransportFailure(reqs[2].o)
  /\ ~TransportFailure(reqs[3].o)
  /\ t_ret.kind = "return"
  /\ t_method = "post"

\* C10: when all 3 attempts of fetch or post fail, the call raises the
\* exception of the third attempt, the third request is the last thing the
\* call did (no sleep follows it), and a call never sends a fourth request.
C10_ExhaustedRaisesLast ==
  LET reqs == RequestsOf(t_trace) IN
  /\ Len(reqs) <= 3
  /\ (Len(reqs) = 3 /\ \A k \in 1..3 : TransportFailure(reqs[k].o))
       => /\ t_ret = Raised(CauseOf(reqs[3].o))
          /\ IsRequest(t_trace[Len(t_trace)])

\* a call whose three attempts failed for three different reasons
C10_Witness ==
  LET reqs == RequestsOf(t_trace) IN
  /\ Len(reqs) = 3
  /\ \A k \in 1..3 : TransportFailure(reqs[k].o)
  /\ CauseOf(reqs[1].o) # CauseOf(reqs[3].o)
  /\ CauseOf(reqs[2].o) # CauseOf(reqs[3].o)
  /\ t_ret.kind = "raise"

(***************************************************************************)
(* Properties of the extractors (under Spec).                              *)
(***************************************************************************)
\* s starts with p
StartsWith(s, p) == Len(s) >= Len(p) /\ SubSeq(s, 1, Len(p)) = p

\* the requests an invocation sent
RequestsIn(c) == RequestsOf(c.result.trace)

\* the event j of trace tr is the third request in a row to its url
ThirdAttempt(tr, j) ==
  /\ j >= 5
  /\ IsRequest(tr[j - 2]) /\ tr[j - 2].url = tr[j].url
  /\ IsRequest(tr[j - 4]) /\ tr[j - 4].url = tr[j].url

\* C11: every request sent goes out through fetch or post, by requests.get
\* or requests.post inside the retry loop: a request that fails (exception
\* or error status) is followed by a backoff sleep unless it is the third
\* attempt.
C11_AllRequestsThroughTransport ==
  \A i \in 1..Len(calls) :
    \A j \in 1..Len(calls[i].result.trace) :
      IsRequest(calls[i].result.trace[j])
        => /\ calls[i].result.trace[j].via \in {"get", "post"}
           /\ TransportFailure(calls[i].result.trace[j].o)
                => \/ ThirdAttempt(calls[i].result.trace, j)
                   \/ /\ j < Len(calls[i].result.trace)
                      /\ calls[i].result.trace[j + 1].ev = "sleep"

\* the region code of a registry key
PrefixOf(key) ==
  CASE key = K_baden_wuerttemberg -> <<"B","W">>
    [] key = K_bayern -> <<"B","Y">>
    [] key = K_berlin -> <<"B","E">>
    [] key = K_brandenburg -> <<"B","B">>
    [] key = K_bremen -> <<"H","B">>
    [] key = K_hamburg -> <<"H","H">>
    [] key = K_hessen -> <<"H","E">>
    [] key = K_mecklenburg_vorpommern -> <<"M","V">>
    [] key = K_niedersachsen -> <<"N","I">>
    [] key = K_nordrhein_westfalen -> <<"N","W">>
    [] key = K_rheinland_pfalz -> <<"R","P">>
    [] key = K_saarland -> <<"S","L">>
    [] key = K_sachsen -> <<"S","N">>
    [] key = K_sachsen_anhalt -> <<"S","T">>
    [] key = K_schleswig_holstein -> <<"S","H">>
    [] key = K_thueringen -> <<"T","H">>

\* no two regions have the same code
CodesDistinct == \A a, b \in SixteenKeys : a # b => PrefixOf(a) # PrefixOf(b)

\* C12: the sixteen region codes are pairwise distinct, every record an
\* extractor returns has an id that starts with the code of the extractor's
\* region and "-", and scrape_state returns the extractor's records.
C12_IdPrefix ==
  /\ CodesDistinct
  /\ \A i \in 1..Len(calls) :
       \A j \in 1..Len(calls[i].result.schools) :
         StartsWith(calls[i].result.schools[j].id, PrefixOf(calls[i].key) \o <<"-">>)
  /\ (IsScrapeState /\ Done /\ ret.kind = "return")
       => (Len(calls) = 1 /\ ret.value = calls[1].result.schools)

\* scrape_state("rheinland-pfalz") returned two records of the HTML pages,
\* the first without a Schulnummer
C12_Witness ==
  /\ IsScrapeState /\ Done /\ ret.kind = "return"
  /\ Len(calls) = 1
  /\ calls[1].key = K_rheinland_pfalz
  /\ calls[1].up.ept = "primaryfail"
  /\ calls[1].up.rec = "nokey"
  /\ Len(ret.value) = 2
  /\ ret.value[1].id = <<"R","P","-">>

\* C13: the ids of the records scrape_all returns are pairwise distinct, and
\* the list has one entry per record an invocation returned.
C13_IdsDistinct ==
  (IsScrapeAll /\ Done /\ ret.kind = "return")
    => /\ \A i, j \in 1..Len(ret.value) : i # j => ret.value[i].id # ret.value[j].id
       /\ Len(ret.value) = Len(Contributed(1))

\* the name of the source record with native key k
NameOf(k) == <<"n">> \o Digits(k)

\* the invocation i met a healthy upstream of two records per payload, the
\* first of them like rec
MetRecord(i, rec) ==
  /\ calls[i].up.net = "ok"
  /\ calls[i].up.ept = "none"
  /\ calls[i].up.rows = 2
  /\ calls[i].up.rec = rec

\* C14: given a payload of one record without native key and one well-formed
\* record, the extractor returns: exactly the well-formed record (one per
\* collection for Hamburg's two collections), and none made of the record
\* without key.
C14_MissingKeySkipped ==
  \A i \in 1..Len(calls) :
    MetRecord(i, "nokey")
      => /\ ~CallRaised(i)
         /\ Len(calls[i].result.schools) = (IF calls[i].key = K_hamburg THEN 2 ELSE 1)
         /\ \A j \in 1..Len(calls[i].result.schools) :
              calls[i].result.schools[j].name \in {NameOf(2), NameOf(4)}

\* C15: when the first record of a payload has no coordinates, a null
\* geometry or coordinates that are not numbers, the extractor returns; the
\* record is in the result with its id and name and with latitude and
\* longitude both unset, and the second record is in the result too.
C15_BadCoordinatesTolerated ==
  \A i \in 1..Len(calls) :
    (MetRecord(i, "missing") \/ MetRecord(i, "null") \/ MetRecord(i, "invalid"))
      => /\ ~CallRaised(i)
         /\ \E j \in 1..Len(calls[i].result.schools) :
              /\ calls[i].result.schools[j].name = NameOf(1)
              /\ calls[i].result.schools[j].id # None
              /\ calls[i].result.schools[j].latitude = None
              /\ calls[i].result.schools[j].longitude = None
         /\ \E j \in 1..Len(calls[i].result.schools) :
              calls[i].result.schools[j].name = NameOf(2)

\* C16: in every record an extractor returns, latitude is set if and only if
\* longitude is set.
C16_LatitudeIffLongitude ==
  \A i \in 1..Len(calls) :
    \A j \in 1..Len(calls[i].result.schools) :
      (calls[i].result.schools[j].latitude = None)
        <=> (calls[i].result.schools[j].longitude = None)

\* the initial step of the Niedersachsen invocation i failed: the session
\* page could not be fetched, or it came without a token
SessionStepFailed(i) ==
  /\ calls[i].key = K_niedersachsen
  /\ (calls[i].up.net # "ok" \/ calls[i].up.ept = "notoken")

\* C17: in scrape_all, when the initial step of a Niedersachsen invocation
\* failed, the extractor raised, the region is in errors, and under
\* on_error = "raise" the call has raised the extractor's exception.
C17_SessionStepFatal ==
  IsScrapeAll
    => \A i \in 1..Len(calls) :
         SessionStepFailed(i)
           => /\ CallRaised(i)
              /\ K_niedersachsen \in ErrorKeys
              /\ (op.on_error = "raise") => (ret = Raised(calls[i].result.exc))

DetailRegions == {K_niedersachsen, K_bremen, K_hessen, K_rheinland_pfalz}

\* the invocation c got as far as its detail loop
RanDetailLoop(c) ==
  /\ c.key \in DetailRegions
  /\ c.up.net = "ok"
  /\ (c.key = K_rheinland_pfalz)
       => \E j \in 1..Len(c.result.trace) :
            IsRequest(c.result.trace[j]) /\ c.result.trace[j].url = Url("bildung.rlp.de/schulen", 0)

\* the k-th listed record has a key to fetch its detail page with
Listed(c, k) ==
  ~(c.key \in {K_niedersachsen, K_bremen} /\ k = 1 /\ c.up.rec \in {"nokey", "altkey"})

\* the requests for the detail page of the k-th record
DetailRequests(c, k) ==
  SelectSeq(c.result.trace, LAMBDA e : IsRequest(e) /\ e.url[2] = k)

\* the detail page of the k-th record was fetched and parsed
DetailServed(c, k) ==
  /\ DetailRequests(c, k) # <<>>
  /\ PageOk(DetailRequests(c, k)[Len(DetailRequests(c, k))].o)
  /\ ~(c.up.ept = "detailbad" /\ k = 1)

\* the names of the records whose detail page was fetched and parsed, in order
ServedNames(c) ==
  SelectSeq([k \in 1..c.up.rows |-> NameOf(k)],
            LAMBDA nm : \E k \in 1..c.up.rows :
                          nm = NameOf(k) /\ Listed(c, k) /\ DetailServed(c, k))

\* C18: when the detail page of the first key fails (error status,
\* unreachable, or no content to parse) in a detail loop, the extractor does
\* not raise, a detail request has gone out for every listed key, and the
\* result holds exactly the records of the keys whose detail page was
\* fetched and parsed, in order.
C18_DetailFailureSkipsKey ==
  \A i \in 1..Len(calls) :
    (RanDetailLoop(calls[i]) /\ calls[i].up.ept \in {"detailfail", "detaildown", "detailbad"})
      => /\ ~CallRaised(i)
         /\ \A k \in 1..calls[i].up.rows :
              Listed(calls[i], k) => DetailRequests(calls[i], k) # <<>>
         /\ [j \in 1..Len(calls[i].result.schools) |-> calls[i].result.schools[j].name]
              = ServedNames(calls[i])

\* scrape_state("niedersachsen") returned the second school only, after three
\* attempts at the detail page of the first
C18_Witness ==
  /\ IsScrapeState /\ Done /\ ret.kind = "return"
  /\ Len(calls) = 1
  /\ calls[1].key = K_niedersachsen
  /\ calls[1].up.ept = "detaildown"
  /\ Len(DetailRequests(calls[1], 1)) = 3
  /\ Len(ret.value) = 1
  /\ ret.value[1].name = NameOf(2)

\* C19: when the key tables cannot be fetched, the Sachsen and the
\* Nordrhein-Westfalen extractor return every record of the payload, with
\* the school type left as the code of the source.
C19_LookupFailureDegrades ==
  \A i \in 1..Len(calls) :
    (calls[i].key \in {K_sachsen, K_nordrhein_westfalen}
       /\ calls[i].up.net = "ok" /\ calls[i].up.ept = "lookupfail"
       /\ calls[i].up.rec = "good")
      => /\ ~CallRaised(i)
         /\ Len(calls[i].result.schools) = calls[i].up.rows
         /\ \A j \in 1..Len(calls[i].result.schools) :
              calls[i].result.schools[j].school_type = TypeCode

\* the requests of the invocation c to the list page of the HTML strategy
SecondaryRequests(c) ==
  SelectSeq(c.result.trace,
            LAMBDA e : IsRequest(e) /\ e.url = Url("bildung.rlp.de/schulen", 0))

\* the position of the last request to the GeoPortal in the trace of c, and
\* of the first request to bildung.rlp.de
LastPrimary(c) ==
  CHOOSE j \in 1..Len(c.result.trace) :
    /\ c.result.trace[j].url = Url("geoportal.rlp.de", 0)
    /\ \A k \in (j + 1)..Len(c.result.trace) : c.result.trace[k].url # Url("geoportal.rlp.de", 0)

\* what C20 says of the invocation c, p being what the primary strategy gave
FallbackRule(c, p) ==
  /\ c.result.trace # <<>>
  /\ c.result.trace[1].url = Url("geoportal.rlp.de", 0)
  /\ Len(SecondaryRequests(c)) <= 1
  /\ (Len(SecondaryRequests(c)) = 1) <=> p.raised
  /\ \A j \in 1..Len(c.result.trace) :
       (c.result.trace[j].url[1] \in {"bildung.rlp.de/schulen", "bildung.rlp.de/einzelanzeige"})
         => (p.raised /\ j > LastPrimary(c))
  /\ c.result.raised => (p.raised /\ scrape_rlp_html(c.up).raised)
  /\ ~p.raised => c.result.schools = p.schools

\* C20: in every Rheinland-Pfalz invocation the GeoPortal is asked first; the
\* list page of the HTML strategy is requested if and only if the GeoPortal
\* strategy raised, after the last GeoPortal request and at most once; the
\* extractor raises only when both strategies raised; and when the GeoPortal
\* strategy returned, its records are the result and no request went to
\* bildung.rlp.de.
C20_FallbackOnlyAfterPrimaryFailed ==
  \A i \in 1..Len(calls) :
    (calls[i].key = K_rheinland_pfalz)
      => FallbackRule(calls[i],
                      rlp_primary(Fetch(Url("geoportal.rlp.de", 0), calls[i].up), calls[i].up))

\* scrape_state("rheinland-pfalz") returned the records of the HTML pages
\* after three failed requests to the GeoPortal
C20_Witness ==
  /\ IsScrapeState /\ Done /\ ret.kind = "return"
  /\ Len(calls) = 1
  /\ calls[1].key = K_rheinland_pfalz
  /\ calls[1].up.ept = "primaryfail"
  /\ Len(SecondaryRequests(calls[1])) = 1
  /\ Len(ret.value) = 2

\* an output field is unset: None, or the empty string some extractors write
Unset(v) == v = None \/ v = <<>>

\* C21: when the first record of a payload lacks the fields of the name and
\* the school type, has them null, or lacks their container or has it null,
\* the extractor returns a record for every source record (for Hamburg, of
\* both collections), the well-formed second record among them; and when it
\* is the fields that are missing or null, the record made of the first has
\* name and school type unset.
C21_MissingFieldsTolerated ==
  \A i \in 1..Len(calls) :
    \A q \in {"nofield", "nullfield", "nobox", "nullbox"} :
      MetRecord(i, q)
        => /\ ~CallRaised(i)
           /\ Len(calls[i].result.schools) = (IF calls[i].key = K_hamburg THEN 4 ELSE 2)
           /\ \E j \in 1..Len(calls[i].result.schools) :
                calls[i].result.schools[j].name = NameOf(2)
           /\ (q \in {"nofield", "nullfield"})
                => \E j \in 1..Len(calls[i].result.schools) :
                     /\ Unset(calls[i].result.schools[j].name)
                     /\ Unset(calls[i].result.schools[j].school_type)

\* the event is a request for a detail page
IsDetailRequest(e) == IsRequest(e) /\ e.url[2] > 0

\* C22: in the detail loops (Niedersachsen, Bremen, Hessen, the HTML pages
\* of Rheinland-Pfalz) no detail request follows another at once: between
\* two consecutive detail requests the extractor has slept, by
\* time.sleep(0.1) or by the longer backoff of the retry loop.
C22_DelayBetweenDetailRequests ==
  \A i \in 1..Len(calls) :
    (calls[i].key \in DetailRegions)
      => \A j \in 1..(Len(calls[i].result.trace) - 1) :
           ~(IsDetailRequest(calls[i].result.trace[j])
               /\ IsDetailRequest(calls[i].result.trace[j + 1]))

\* C23: when scrape_all is given a list of keys, every extractor it invokes
\* is the one of a region some key of the list names, and with the empty
\* list it invokes none and returns the empty list.
C23_OnlyRequestedInvoked ==
  (IsScrapeAll /\ op.given)
    => /\ \A i \in 1..Len(calls) :
            \E p \in 1..Len(op.states) : calls[i].key \in NamedBy[op.states[p]]
       /\ (op.states = <<>> /\ Done) => (calls = <<>> /\ ret = Returned(<<>>))

\* the position j of the trace tr is where a call of fetch begins: a request
\* that is not a retry after a backoff sleep
BeginsFetch(tr, j) == IsRequest(tr[j]) /\ (j = 1 \/ tr[j - 1].ev # "sleep")

\* the search request e carries the token and the cookies the session page set
Authenticated(e) ==
  /\ e.hdr.token = <<"a","b","=">>
  /\ \E n \in 1..Len(e.hdr.cookies) : e.hdr.cookies[n][1] = "XSRF-TOKEN"
  /\ \E n \in 1..Len(e.hdr.cookies) : e.hdr.cookies[n] = <<"nibis_session", <<"s","1">> >>

\* what C24 says of the Niedersachsen invocation c with trace tr
Protocol(c, tr) ==
  /\ \A j \in 1..Len(tr) :
       (IsRequest(tr[j]) /\ tr[j].url = Url("schulen.nibis.de/school/search", 0))
         => /\ tr[j].via = "post"
            /\ c.up.ept # "notoken"
            /\ Authenticated(tr[j])
            /\ \E k \in 1..(j - 1) :
                 /\ IsRequest(tr[k])
                 /\ tr[k].url = Url("schulen.nibis.de/search/advanced", 0)
                 /\ PageOk(tr[k].o)
  /\ \A j \in 1..Len(tr) :
       IsDetailRequest(tr[j])
         => /\ tr[j].url[1] = "schulen.nibis.de/school/getInfo"
            /\ tr[j].url[2] \in 1..c.up.rows
            /\ Listed(c, tr[j].url[2])
            /\ \E k \in 1..(j - 1) :
                 /\ IsRequest(tr[k])
                 /\ tr[k].url = Url("schulen.nibis.de/school/search", 0)
                 /\ PageOk(tr[k].o)
  /\ \A n \in 1..c.up.rows :
       Cardinality({j \in 1..Len(tr) :
                      IsDetailRequest(tr[j]) /\ tr[j].url[2] = n /\ BeginsFetch(tr, j)}) <= 1

\* C24: in every Niedersachsen invocation, a search request is a POST that
\* comes after a session page that was answered and set a token, and carries
\* that token, unquoted, and the cookies of the session page; a detail
\* request comes after a search request that succeeded and is for a record
\* the search listed with a key; and no more than one fetch call is made for
\* a listed record.
C24_NiedersachsenProtocol ==
  \A i \in 1..Len(calls) :
    (calls[i].key = K_niedersachsen) => Protocol(calls[i], calls[i].result.trace)

\* scrape_state("niedersachsen") returned the second school after the
\* session page, the authenticated search, three attempts at the first
\* detail page and one at the second
C24_Witness ==
  /\ IsScrapeState /\ Done /\ ret.kind = "return"
  /\ Len(calls) = 1
  /\ calls[1].key = K_niedersachsen
  /\ calls[1].up.rows = 2
  /\ calls[1].up.ept = "detailfail"
  /\ Len(SelectSeq(calls[1].result.trace, IsDetailRequest)) = 4
  /\ \E j \in 1..Len(calls[1].result.trace) :
       /\ calls[1].result.trace[j].url = Url("schulen.nibis.de/school/search", 0)
       /\ Authenticated(calls[1].result.trace[j])

====
